---- MODULE Spec2Model ----
(***************************************************************************)
(* Model of src/account.js: the FilecoinSyncer class and the drivers all() *)
(* and add().  One process at a time runs against a MySQL database with    *)
(* the tables fil_transfers and fil_last_count and against the remote      *)
(* explorer API.  Every await of the source is one step; every step draws  *)
(* the outcome of its database or network call from the outcomes that call *)
(* can have.                                                               *)
(***************************************************************************)
EXTENDS Integers, Sequences, FiniteSets, TLC

(* ------------------------------ bounds --------------------------------- *)
\* Transfers the remote feeds hold, all accounts together.
MaxRemote == 3
\* Processes (node account.js) started one after the other.
MaxRuns == 3
\* Faults of the environment in one behaviour: a rejected database call, a
\* failed or short answer of the remote API, a wall clock set back, a
\* killed process.
MaxFaults == 2
\* this.pageSize (src/account.js:31 sets 100), scaled down so that a pass
\* of a few records spans several pages.
pageSize == 2
\* Rows of fil_transfers that report() reads.
MaxRows == 2
\* Largest value of a stored transfer, in FIL.
MaxValue == 1
\* Longest string handed to attoToFil.
MaxLen == 2
\* attoFIL in one FIL (src/account.js:273 divides by 10n**18n), scaled down.
AttoPerFil == 10

(* ----------------------------- constants ------------------------------- *)
\* The accounts process.env.ADDRESSES can name.
Accounts == {"A", "B"}

(* --------------------------- JavaScript values ------------------------- *)
\* The values the variables local and net of add() can hold.
Num(v) == [t |-> "number", v |-> v]

Undefined == [t |-> "undefined", v |-> 0]

NaN == [t |-> "NaN", v |-> 0]

\* getTotalCount returns [] from its catch block (line 168).
EmptyArray == [t |-> "array", v |-> 0]

\* ToNumber: [] -> "" -> 0, undefined -> NaN.
ToNumber(x) ==
  IF x.t = "array" THEN Num(0)
  ELSE IF x.t = "undefined" THEN NaN
  ELSE x

\* The binary - of lines 97 and 107.
Minus(x, y) ==
  IF ToNumber(x).t = "NaN" \/ ToNumber(y).t = "NaN" THEN NaN
  ELSE Num(ToNumber(x).v - ToNumber(y).v)

\* A test that lets x = 0 through.
LessThanZero(x) == ToNumber(x).t = "number" /\ ToNumber(x).v < 0

\* x <= 0 (line 99); a comparison with NaN is false.
LeqZero(x) == ToNumber(x).t = "number" /\ ToNumber(x).v <= 0

\* A rounding down in place of Math.ceil.
FloorDiv(x) ==
  IF ToNumber(x).t = "NaN" THEN NaN
  ELSE Num(ToNumber(x).v \div pageSize)

\* Math.ceil(x / pageSize) (line 103); NaN stays NaN.
CeilDiv(x) ==
  IF ToNumber(x).t = "NaN" THEN NaN
  ELSE Num((ToNumber(x).v + pageSize - 1) \div pageSize)

\* A loop test that lets the index reach its bound.
LessOrEqual(a, b) == ToNumber(b).t = "number" /\ a <= ToNumber(b).v

\* a < b (line 105); a comparison with NaN is false.
Less(a, b) == ToNumber(b).t = "number" /\ a < ToNumber(b).v

Min(a, b) == IF a <= b THEN a ELSE b

Max(a, b) == IF a >= b THEN a ELSE b

(* ------------------------------- state --------------------------------- *)
VARIABLES
  addresses,        \* process.env.ADDRESSES after split(',') (lines 410, 432)
  remote,           \* remote[a]: transfers in a's feed (append-only)
  fil_transfers,    \* table fil_transfers: set of rows
  fil_last_count,   \* table fil_last_count: set of rows
  pc,               \* where the process is
  mode,             \* "all" or "add": which driver main() runs
  idx,              \* position of the for-of loop in addresses
  uniqueIdCounter,  \* this.uniqueIdCounter
  exitCode,         \* "none" while running, then "0", "1" or "killed"
  runs,             \* processes started so far
  local,            \* add(): local
  net,              \* add(): net / saveTotalCount: totalCount
  needSyncCount,    \* addSync: needSyncCount
  totalPages,       \* addSync: totalPages
  page,             \* addSync: page / fullSync: currentPage
  syncedCount,      \* addSync: syncedCount
  transfers,        \* the page in flight (sequence of feed records)
  faults,           \* faults of the environment so far
  begun,            \* history: passes this process began
  done,             \* history: passes this process ran to their end
  passLog,          \* history: the page requests of the current pass
  caught,           \* history: the error the pass's catch block logged
  ckptWrite,        \* history: what the checkpoint write of this pass did
  startRows,        \* history: rows of the account when the pass began
  startCkpt,        \* history: its checkpoint when the pass began
  startExact,       \* history: whether its rows mirrored the feed then
  startFaults,      \* history: the faults met before the pass began
  appended,         \* history: per account, feed grown since its last pass
  prev,             \* history: per account, how its last add pass ended
  report,           \* report(): the call made last and what it returned
  held              \* connections of the pool acquired and not released

\* What only Start changes.
runVars == <<addresses, mode, runs>>

tableVars == <<fil_transfers, fil_last_count>>

\* The driver's position.
loopVars == <<idx, exitCode, begun, done>>

\* The locals of one pass.
passVars == <<local, net, needSyncCount, totalPages, page, syncedCount, transfers>>

logVars == <<passLog, caught, ckptWrite>>

startVars == <<startRows, startCkpt, startExact, startFaults>>

memVars == <<appended, prev>>

vars == <<runVars, remote, tableVars, pc, uniqueIdCounter, loopVars, passVars,
          faults, logVars, startVars, memVars, report, held>>

\* The step meets n more faults of the environment.
Fault(n) == faults + n <= MaxFaults /\ faults' = faults + n

Cost(bad) == IF bad THEN 1 ELSE 0

(* ------------------------------ the clock ------------------------------ *)
\* Date.now() (line 187).  Processes run one after the other, so the clock
\* reads the epoch of the running process, or an earlier one after the wall
\* clock was set back.
Clock == 1..runs

(* ------------------------------ the feed ------------------------------- *)
\* Record n of account a is the n-th transfer appended to a's feed; the API
\* lists newest first, so position i (from 0) holds record remote[a] - i.
\* GET /address/{a}/transfers?pageSize=s&page=p answers positions
\* p*s .. p*s+s-1 (lines 129-133).
FeedPage(a, p, s) ==
  LET k == Max(0, Min(s, remote[a] - p * s))
  IN [j \in 1..k |-> remote[a] - (p * s + j - 1)]

\* What getTransfers can return: the page, a shorter answer of the remote,
\* or [] on a network error or a malformed payload (lines 139-150).
getTransfers(a, p, s) ==
  {SubSeq(FeedPage(a, p, s), 1, k) : k \in 0..Len(FeedPage(a, p, s))}

\* What getTotalCount can return (lines 153-170): the count; 0 when the
\* payload has no (or a zero) totalCount; [] from the catch block.
getTotalCount(a) == {Num(remote[a]), Num(0), EmptyArray}

(* ------------------------------ the tables ----------------------------- *)
RowsOf(a) == {r \in fil_transfers : r.address = a}

CountRows(a) == Cardinality(RowsOf(a))

LastCountRows(a) == {r \in fil_last_count : r.address = a}

\* result[0][0].last_count of line 243; undefined (after the TypeError is
\* caught and logged) when the select returns no row.
selectLastCount(a) ==
  IF LastCountRows(a) = {} THEN Undefined
  ELSE Num((CHOOSE r \in LastCountRows(a) : TRUE).last_count)


(* ------------------------------- logger -------------------------------- *)
\* The methods the logger object of lines 7-11 has.  Calling any other
\* method is "TypeError: logger.x is not a function".
logger == {"info", "error", "debug"}

(* ---------------------------- saveTransfers ---------------------------- *)
\* The rows built by transfers.map (lines 186-195).  <<a, n>> stands for the
\* message, height, timestamp and type of record n of account a; the id adds
\* Date.now() and this.generateUniqueId() (lines 172-177, 187).
Values(a, ts, now, counter) ==
  [i \in 1..Len(ts) |->
     [cid |-> <<a, ts[i], now, counter + i - 1>>, address |-> a, record |-> ts[i]]]

Cids(table) == {r.cid : r \in table}

\* INSERT INTO fil_transfers ... VALUES ? (lines 197-202): the rows go in one
\* after the other; a row whose cid is already a primary key, or row failAt
\* that the server rejects (failAt = 0: none), ends the statement in error.
RECURSIVE InsertRows(_, _, _, _)
InsertRows(table, values, i, failAt) ==
  IF i > Len(values) THEN [err |-> FALSE, table |-> table]
  ELSE IF i = failAt \/ values[i].cid \in Cids(table)
       THEN [err |-> TRUE, table |-> table]
       ELSE InsertRows(table \cup {values[i]}, values, i + 1, failAt)

\* saveTransfers without its transaction: the rows inserted before an error
\* stay in the table.
saveTransfersAutocommit(table, a, ts, counter, now, f, failAt, rb) ==
  LET ins == InsertRows(table, Values(a, ts, now, counter), 1, failAt)
  IN IF f = "beginTransaction"
     THEN [table |-> table, counter |-> counter,
           end |-> IF rb THEN "rolledback" ELSE "threw"]
     ELSE IF ins.err \/ f = "commit"
     THEN [table |-> ins.table, counter |-> counter + Len(ts),
           end |-> IF rb THEN "rolledback" ELSE "threw"]
     ELSE [table |-> ins.table, counter |-> counter + Len(ts), end |-> "committed"]

\* saveTransfers after its connection was acquired (lines 183-211), under
\* fault f in {"none", "beginTransaction", "query", "commit"}; rb: whether
\* conn.rollback() of the catch block succeeds.  The result is the table,
\* the id counter and how the call ended: "committed", "rolledback" (the
\* error is logged and swallowed, line 208) or "threw" (rollback rejected
\* on a lost connection: the error leaves saveTransfers, and the server
\* rolls back the transaction of the connection it lost).
saveTransfers(table, a, ts, counter, now, f, failAt, rb) ==
  LET ins == InsertRows(table, Values(a, ts, now, counter), 1, failAt)
  IN IF f = "beginTransaction"
     THEN [table |-> table, counter |-> counter,
           end |-> IF rb THEN "rolledback" ELSE "threw"]
     ELSE IF ins.err \/ f = "commit"
     THEN [table |-> table, counter |-> counter + Len(ts),
           end |-> IF rb THEN "rolledback" ELSE "threw"]
     ELSE [table |-> ins.table, counter |-> counter + Len(ts), end |-> "committed"]

\* The faults one call of saveTransfers can meet after conn was acquired.
SaveFaults(ts) ==
  {<<f, k, rb>> \in {"none", "beginTransaction", "query", "commit"}
                     \X (0..Len(ts)) \X BOOLEAN :
     (f = "query") = (k > 0)}

(* ------------------------------ the pool ------------------------------- *)
\* A release that is the last statement of the try block: it is reached
\* only when the block ends without an error.
releaseInTry(end) == IF end \in {"ok", "committed"} THEN 1 ELSE 0

\* How many times conn.release() runs in a function that acquired conn,
\* however its try and catch blocks ended: once, in the finally block
\* (lines 209-211, 231-233, 246-248, 265-267, 337-339).
release(end) ==
  IF end \in {"ok", "query", "committed", "rolledback", "threw"} THEN 1 ELSE 0

(* ---------------------------- fil_last_count --------------------------- *)
\* UPDATE fil_last_count set last_count = ? where address = ? (lines
\* 255-258): rewrites the rows of the address, and matches none when the
\* address has no row.
UpdateLastCount(table, a, v) ==
  {IF r.address = a THEN [r EXCEPT !.last_count = v] ELSE r : r \in table}

\* An insert that stores 0, whatever total it is given.
InsertZeroCount(table, a, v) ==
  IF \E r \in table : r.address = a
  THEN [err |-> TRUE, table |-> table]
  ELSE [err |-> FALSE, table |-> table \cup {[address |-> a, last_count |-> 0]}]

\* INSERT INTO fil_last_count (address, last_count) VALUES (?, ?) (lines
\* 220-223): address is the primary key, so a second row is an error.
InsertLastCount(table, a, v) ==
  IF \E r \in table : r.address = a
  THEN [err |-> TRUE, table |-> table]
  ELSE [err |-> FALSE, table |-> table \cup {[address |-> a, last_count |-> v]}]

\* updateTotalCount after its connection was acquired (lines 253-267).  A
\* totalCount of [] is formatted as an empty list and the statement is a
\* syntax error.
updateTotalCount(table, a, totalCount, f, rb) ==
  IF f # "none" \/ totalCount.t # "number"
  THEN [table |-> table, end |-> IF rb THEN "rolledback" ELSE "threw"]
  ELSE [table |-> UpdateLastCount(table, a, totalCount.v), end |-> "committed"]

\* saveTotalCount after getConnection and getTotalCount (lines 218-233).
saveTotalCount(table, a, totalCount, f, rb) ==
  IF f # "none" \/ totalCount.t # "number"
     \/ InsertLastCount(table, a, totalCount.v).err
  THEN [table |-> table, end |-> IF rb THEN "rolledback" ELSE "threw"]
  ELSE [table |-> InsertLastCount(table, a, totalCount.v).table, end |-> "committed"]

DbFaults == {"none", "beginTransaction", "query", "commit"} \X BOOLEAN

(* ------------------------------- Init ---------------------------------- *)
\* No call of report() was made.
NoReport == [fn |-> "none"]

NoPrev == [kind |-> "none", partial |-> FALSE, exact |-> FALSE]

\* After verifyTables created the empty tables, before any process ran.
InitWith(addrs) ==
  /\ addresses = addrs
  /\ remote = [a \in Accounts |-> 0]
  /\ fil_transfers = {}
  /\ fil_last_count = {}
  /\ pc = "idle"
  /\ mode = "add"
  /\ idx = 1
  /\ uniqueIdCounter = 0
  /\ exitCode = "none"
  /\ runs = 0
  /\ local = Undefined
  /\ net = Undefined
  /\ needSyncCount = Undefined
  /\ totalPages = Undefined
  /\ page = 0
  /\ syncedCount = 0
  /\ transfers = <<>>
  /\ faults = 0
  /\ begun = 0
  /\ done = 0
  /\ passLog = <<>>
  /\ caught = "none"
  /\ ckptWrite = "none"
  /\ startRows = 0
  /\ startCkpt = Undefined
  /\ startExact = FALSE
  /\ startFaults = 0
  /\ appended = [a \in Accounts |-> FALSE]
  /\ prev = [a \in Accounts |-> NoPrev]
  /\ report = NoReport
  /\ held = 0

address == addresses[idx]

Watched == {addresses[i] : i \in 1..Len(addresses)}

\* The locals of one iteration of the for-of loop, before it runs.
ResetPass ==
  /\ local' = Undefined
  /\ net' = Undefined
  /\ needSyncCount' = Undefined
  /\ totalPages' = Undefined
  /\ page' = 0
  /\ syncedCount' = 0
  /\ transfers' = <<>>
  /\ passLog' = <<>>
  /\ caught' = "none"
  /\ ckptWrite' = "none"

Committed(log) == Cardinality({i \in 1..Len(log) : log[i].save = "committed"})

\* A pass that stopped after committing some, not all, of its pages and
\* before the checkpoint write.
Partial ==
  /\ Committed(passLog) >= 1
  /\ Less(Committed(passLog), totalPages)
  /\ ckptWrite = "none"

\* How an incremental pass that ran to its end went: it stopped on an empty
\* page (line 112), its checkpoint write failed (lines 263-266), nothing
\* failed in it, or something else failed.
Outcome ==
  IF caught = "TypeError" THEN "empty"
  ELSE IF ckptWrite \in {"threw", "rolledback"} THEN "unsaved"
  ELSE IF faults = startFaults THEN "complete"
  ELSE "ended"

\* How the add pass in progress stands, kept for the account's next pass.
Snapshot(kind) == [kind |-> kind, partial |-> Partial, exact |-> startExact]

\* How the full pass in progress stands when the process is killed: whether
\* it was paging, for an account that had neither a checkpoint row nor rows
\* when the pass began, after saveTotalCount stored the remote total, nothing
\* having failed in the pass.
FullSnapshot ==
  [kind |-> IF /\ pc \in {"fullGetTransfers", "fullSaveTransfers"}
               /\ startCkpt = Undefined
               /\ startRows = 0
               /\ ckptWrite = "committed"
               /\ faults = startFaults
            THEN "fullcrashed" ELSE "none",
   partial |-> FALSE, exact |-> FALSE]

\* The rows of a are one row for each of its records 1..n and nothing else.
ExactlyOnce(a, n) ==
  /\ \A r \in RowsOf(a) : r.record \in 1..n
  /\ \A k \in 1..n : Cardinality({r \in RowsOf(a) : r.record = k}) = 1

Mirrored(a) ==
  /\ selectLastCount(a).t = "number"
  /\ ExactlyOnce(a, selectLastCount(a).v)

\* The iteration for addresses[i] begins (lines 418-419, 440-441).
BeginPass(i) ==
  /\ idx' = i
  /\ pc' = IF mode = "add" THEN "selectTotalCount" ELSE "saveTotalCount"
  /\ begun' = begun + 1
  /\ startRows' = CountRows(addresses[i])
  /\ startCkpt' = selectLastCount(addresses[i])
  /\ startExact' = Mirrored(addresses[i])
  /\ startFaults' = faults'
  /\ ResetPass

\* The process ends with code c.
Exit(c) ==
  /\ pc' = "idle"
  /\ exitCode' = c
  /\ idx' = 1
  /\ UNCHANGED begun
  /\ startRows' = 0
  /\ startCkpt' = Undefined
  /\ startExact' = FALSE
  /\ startFaults' = 0
  /\ ResetPass

(* --------------------------- the environment --------------------------- *)
RECURSIVE SumTo(_, _)
SumTo(f, i) == IF i = 0 THEN 0 ELSE f[addresses[i]] + SumTo(f, i - 1)

Sum(f) == SumTo(f, Len(addresses))

\* The chain appends a transfer to the feed of account a, between two runs.
RemoteAppend(a) ==
  /\ pc = "idle"
  /\ Sum(remote) < MaxRemote
  /\ remote' = [remote EXCEPT ![a] = @ + 1]
  /\ appended' = [appended EXCEPT ![a] = TRUE]
  /\ UNCHANGED <<held, report, runVars, tableVars, pc, uniqueIdCounter, loopVars, passVars,
                 faults, logVars, startVars, prev>>

\* main() (lines 546-551) runs add(); all() is run by hand the first time.
\* The constructor (lines 28-32) leaves uniqueIdCounter unset, which
\* generateUniqueId reads as 0.
Start(m) ==
  /\ pc = "idle"
  /\ runs < MaxRuns
  /\ runs' = runs + 1
  /\ mode' = m
  /\ pc' = "initialize"
  /\ exitCode' = "none"
  /\ uniqueIdCounter' = 0
  /\ begun' = 0
  /\ done' = 0
  /\ UNCHANGED <<held, report, addresses, remote, tableVars, idx, passVars, faults, logVars,
                 startVars, memVars>>

\* The process is killed between two steps.
Crash ==
  /\ pc # "idle"
  /\ Fault(1)
  /\ prev' = IF pc = "initialize" THEN prev
             ELSE [prev EXCEPT ![address] =
                     IF mode = "add" THEN Snapshot("crashed") ELSE FullSnapshot]
  /\ appended' = IF pc = "initialize" THEN appended
                 ELSE [appended EXCEPT ![address] = FALSE]
  /\ Exit("killed")
  /\ held' = 0
  /\ UNCHANGED <<report, runVars, remote, tableVars, uniqueIdCounter, done>>

(* ------------------------------ the drivers ---------------------------- *)
\* syncer.initialize() (lines 40-68, 416, 438): verifyTables rethrows, and
\* the driver's catch block exits with code 1.
Initialize ==
  /\ pc = "initialize"
  /\ \E ok \in BOOLEAN :
       /\ Fault(Cost(~ok))
       /\ IF ok THEN BeginPass(1) /\ UNCHANGED exitCode ELSE Exit("1")
  /\ UNCHANGED <<held, report, runVars, remote, tableVars, uniqueIdCounter, done, memVars>>

\* The for-of loop moves on after addSync or fullSync returned (lines
\* 418-422, 440-447); after the last address the driver returns.
NextAddress ==
  /\ pc = "passEnd"
  /\ UNCHANGED faults
  /\ done' = done + 1
  /\ prev' = [prev EXCEPT ![address] =
                IF mode = "add" THEN Snapshot(Outcome) ELSE NoPrev]
  /\ appended' = [appended EXCEPT ![address] = FALSE]
  /\ IF idx < Len(addresses) THEN BeginPass(idx + 1) /\ UNCHANGED exitCode
     ELSE Exit("0")
  /\ UNCHANGED <<held, report, runVars, remote, tableVars, uniqueIdCounter>>

(* ------------------------- add(): one account -------------------------- *)
\* selectTotalCount (lines 236-249).  getConnection is outside the try: its
\* rejection leaves selectTotalCount and add()'s loop, and add()'s catch
\* block exits with code 1 (lines 448-451).  A rejected query, or no row,
\* is logged and the function returns undefined.
SelectTotalCount ==
  /\ pc = "selectTotalCount"
  /\ \E o \in {"ok", "getConnection", "query"} :
       /\ Fault(Cost(o # "ok"))
       /\ IF o = "getConnection"
          THEN /\ Exit("1")
               /\ prev' = [prev EXCEPT ![address] = Snapshot("fatal")]
               /\ appended' = [appended EXCEPT ![address] = FALSE]
               /\ UNCHANGED held
          ELSE /\ held' = held + 1 - release(o)
               /\ local' = IF o = "ok" THEN selectLastCount(address) ELSE Undefined
               /\ pc' = "getTotalCount"
               /\ UNCHANGED <<loopVars, net, needSyncCount, totalPages, page,
                              syncedCount, transfers, logVars, startVars, memVars>>
  /\ UNCHANGED <<report, runVars, remote, tableVars, uniqueIdCounter, done>>

\* const net = await syncer.getTotalCount(address) (line 442).
GetTotalCount ==
  /\ pc = "getTotalCount"
  /\ \E n \in getTotalCount(address) :
       /\ Fault(Cost(n # Num(remote[address])))
       /\ net' = n
  /\ pc' = "addSync"
  /\ UNCHANGED <<held, report, runVars, remote, tableVars, uniqueIdCounter, loopVars, local,
                 needSyncCount, totalPages, page, syncedCount, transfers,
                 logVars, startVars, memVars>>

\* addSync up to its first await (lines 93-105).
AddSync ==
  /\ pc = "addSync"
  /\ needSyncCount' = Minus(net, local)
  /\ IF LeqZero(needSyncCount')
     THEN /\ pc' = "passEnd"
          /\ UNCHANGED <<totalPages, page, syncedCount>>
     ELSE /\ totalPages' = CeilDiv(needSyncCount')
          /\ syncedCount' = 0
          /\ page' = 0
          /\ pc' = IF Less(0, totalPages') THEN "getTransfers" ELSE "updateTotalCount"
  /\ UNCHANGED <<held, report, runVars, remote, tableVars, uniqueIdCounter, loopVars, local,
                 net, transfers, faults, logVars, startVars, memVars>>

\* const currentPageSize = Math.min(...) (line 107).
currentPageSize == Min(pageSize, needSyncCount.v - syncedCount)

\* One page request in the log of the pass, before its rows are saved.
Request(p, s, ts) ==
  [page |-> p, size |-> s, got |-> Len(ts), save |-> "pending",
   fault |-> "none", fresh |-> 0, added |-> 0]

\* One page request of the loop (lines 107-114).  An empty answer calls
\* logger.warn, which the logger lacks: the TypeError goes to addSync's
\* catch block (lines 124-126) and the pass ends there.
GetTransfers ==
  /\ pc = "getTransfers"
  /\ \E ts \in getTransfers(address, page, currentPageSize) :
       /\ Fault(Cost(ts # FeedPage(address, page, currentPageSize)))
       /\ transfers' = ts
       /\ passLog' = Append(passLog, Request(page, currentPageSize, ts))
       /\ IF Len(ts) = 0
          THEN IF "warn" \in logger
               THEN pc' = "updateTotalCount" /\ UNCHANGED caught
               ELSE pc' = "passEnd" /\ caught' = "TypeError"
          ELSE pc' = "saveTransfers" /\ UNCHANGED caught
  /\ UNCHANGED <<held, report, runVars, remote, tableVars, uniqueIdCounter, loopVars, local,
                 net, needSyncCount, totalPages, page, syncedCount, ckptWrite,
                 startVars, memVars>>

\* The end of one call of saveTransfers in the log of the pass: how it
\* ended, the call that was rejected, how many ids of the batch were not
\* stored before, how many rows the table gained.
Logged(log, end, f, fresh, added) ==
  [log EXCEPT ![Len(log)] =
     [@ EXCEPT !.save = end, !.fault = f, !.fresh = fresh, !.added = added]]

Fresh(table, values) ==
  Cardinality({i \in 1..Len(values) : values[i].cid \notin Cids(table)})

\* await this.saveTransfers(address, transfers) (lines 83, 116).
\* getConnection (line 182) is outside the try of saveTransfers: its
\* rejection, like a rejected rollback, leaves saveTransfers.
CallSaveTransfers ==
  \/ /\ Fault(1)
     /\ passLog' = Logged(passLog, "threw", "getConnection", 0, 0)
     /\ caught' = "getConnection"
     /\ UNCHANGED <<fil_transfers, uniqueIdCounter, held>>
  \/ \E now \in Clock, o \in SaveFaults(transfers) :
       LET r == saveTransfers(fil_transfers, address, transfers,
                              uniqueIdCounter, now, o[1], o[2], o[3])
           v == Values(address, transfers, now, uniqueIdCounter)
       IN /\ Fault(Cost(now # runs) + Cost(o[1] # "none") + Cost(~o[3]))
          /\ fil_transfers' = r.table
          /\ uniqueIdCounter' = r.counter
          /\ passLog' = Logged(passLog, r.end, o[1], Fresh(fil_transfers, v),
                               Cardinality(r.table) - Cardinality(fil_transfers))
          /\ caught' = IF r.end = "threw" THEN "rollback" ELSE caught
          /\ held' = held + 1 - release(r.end)

\* Saving one page in addSync and the loop's step (lines 116-120, 105); an
\* error that leaves saveTransfers reaches addSync's catch block.
SaveTransfers ==
  /\ pc = "saveTransfers"
  /\ CallSaveTransfers
  /\ IF caught' # "none"
     THEN /\ pc' = "passEnd"
          /\ UNCHANGED <<page, syncedCount>>
     ELSE /\ syncedCount' = syncedCount + Len(transfers)
          /\ page' = page + 1
          /\ pc' = IF Less(page', totalPages) THEN "getTransfers"
                   ELSE "updateTotalCount"
  /\ UNCHANGED <<report, runVars, remote, fil_last_count, loopVars, local, net,
                 needSyncCount, totalPages, transfers, ckptWrite, startVars,
                 memVars>>

\* await this.updateTotalCount(address, totalCount) (line 122).
UpdateTotalCount ==
  /\ pc = "updateTotalCount"
  /\ \/ /\ Fault(1)
        /\ caught' = "getConnection"
        /\ ckptWrite' = "threw"
        /\ UNCHANGED <<fil_last_count, held>>
     \/ \E o \in DbFaults :
          LET r == updateTotalCount(fil_last_count, address, net, o[1], o[2])
          IN /\ Fault(Cost(o[1] # "none") + Cost(~o[2]))
             /\ fil_last_count' = r.table
             /\ ckptWrite' = r.end
             /\ caught' = IF r.end = "threw" THEN "rollback" ELSE caught
             /\ held' = held + 1 - release(r.end)
  /\ pc' = "passEnd"
  /\ UNCHANGED <<report, runVars, remote, fil_transfers, uniqueIdCounter, loopVars,
                 passVars, passLog, startVars, memVars>>

(* ------------------------- all(): one account -------------------------- *)
\* await syncer.saveTotalCount(address) (lines 215-234, 419).  Nothing in
\* all()'s loop catches: a rejected getConnection or rollback reaches all()'s
\* catch block, which exits with code 1 (lines 423-426).
SaveTotalCount ==
  /\ pc = "saveTotalCount"
  /\ \/ /\ Fault(1)
        /\ Exit("1")
        /\ UNCHANGED <<fil_last_count, held>>
     \/ \E n \in getTotalCount(address), o \in DbFaults :
          LET r == saveTotalCount(fil_last_count, address, n, o[1], o[2])
          IN /\ Fault(Cost(n # Num(remote[address])) + Cost(o[1] # "none")
                      + Cost(~o[2]))
             /\ fil_last_count' = r.table
             /\ held' = held + 1 - release(r.end)
             /\ IF r.end = "threw"
                THEN Exit("1")
                ELSE /\ net' = n
                     /\ ckptWrite' = r.end
                     /\ page' = 0
                     /\ pc' = "fullGetTransfers"
                     /\ UNCHANGED <<loopVars, local, needSyncCount, totalPages,
                                    syncedCount, transfers, passLog, caught,
                                    startVars>>
  /\ prev' = [prev EXCEPT ![address] = NoPrev]
  /\ UNCHANGED <<report, runVars, remote, fil_transfers, uniqueIdCounter, done, appended>>

\* One page request of fullSync (lines 76-81): an empty page ends the loop.
FullGetTransfers ==
  /\ pc = "fullGetTransfers"
  /\ \E ts \in getTransfers(address, page, pageSize) :
       /\ Fault(Cost(ts # FeedPage(address, page, pageSize)))
       /\ transfers' = ts
       /\ passLog' = Append(passLog, Request(page, pageSize, ts))
       /\ pc' = IF Len(ts) = 0 THEN "passEnd" ELSE "fullSaveTransfers"
  /\ UNCHANGED <<held, report, runVars, remote, tableVars, uniqueIdCounter, loopVars, local,
                 net, needSyncCount, totalPages, page, syncedCount, caught,
                 ckptWrite, startVars, memVars>>

\* Saving one page in fullSync; currentPage++ (lines 83-84); an error that
\* leaves saveTransfers reaches fullSync's catch block (lines 88-90).
FullSaveTransfers ==
  /\ pc = "fullSaveTransfers"
  /\ CallSaveTransfers
  /\ IF caught' # "none"
     THEN pc' = "passEnd" /\ UNCHANGED page
     ELSE pc' = "fullGetTransfers" /\ page' = page + 1
  /\ UNCHANGED <<report, runVars, remote, fil_last_count, loopVars, local, net,
                 needSyncCount, totalPages, syncedCount, transfers, ckptWrite,
                 startVars, memVars>>

(* --------------------------- specification ----------------------------- *)
Next ==
  \/ \E a \in Watched : RemoteAppend(a)
  \/ \E m \in {"all", "add"} : Start(m)
  \/ Crash
  \/ Initialize
  \/ NextAddress
  \/ SelectTotalCount
  \/ GetTotalCount
  \/ AddSync
  \/ GetTransfers
  \/ SaveTransfers
  \/ UpdateTotalCount
  \/ SaveTotalCount
  \/ FullGetTransfers
  \/ FullSaveTransfers

\* One watched account.
Init == InitWith(<<"A">>)

Spec == Init /\ [][Next]_vars

\* Two watched accounts.
InitTwo == InitWith(<<"A", "B">>)

SpecTwo == InitTwo /\ [][Next]_vars

(* ------------------------------ report() ------------------------------- *)
\* The columns of fil_transfers that the queries of report() read (lines
\* 47-54): type, from_addr, to_addr, value and the day of timestamp.
Types == {"receive", "send", "reward", "burn"}

Days == {"today", "yesterday"}

ReportRows ==
  [type : Types, from_addr : Accounts, to_addr : Accounts,
   value : 1..MaxValue, day : Days]

\* SQL NULL as mysql2 returns it.
Null == [t |-> "null", v |-> 0]

RECURSIVE SumValues(_)
SumValues(rows) ==
  IF rows = {} THEN 0
  ELSE LET r == CHOOSE x \in rows : TRUE
       IN r.value + SumValues(rows \ {r})

\* select sum(value) as total ...: one row, whose total is NULL when no row
\* of the table matches.
SqlSum(rows) == IF rows = {} THEN Null ELSE Num(SumValues(rows))

\* total || 0 (lines 350, 366, 382, 398).
OrZero(x) == IF x.t = "number" /\ x.v # 0 THEN x ELSE Num(0)

\* The queries (lines 326-403); ok: whether conn.query resolves.  A rejected
\* query is logged by the catch block and the function returns undefined.
selectTransRecieve(a, ok) ==
  IF ~ok THEN Undefined
  ELSE SqlSum({r \in fil_transfers : r.type = "receive" /\ r.to_addr = a})

selectTransSend(a, ok) ==
  IF ~ok THEN Undefined
  ELSE OrZero(SqlSum({r \in fil_transfers : r.type = "send" /\ r.from_addr = a}))

selectTransProduce(a, ok) ==
  IF ~ok THEN Undefined
  ELSE OrZero(SqlSum({r \in fil_transfers : r.type = "reward" /\ r.to_addr = a}))

selectTransBurn(a, ok) ==
  IF ~ok THEN Undefined
  ELSE OrZero(SqlSum({r \in fil_transfers : r.type = "burn" /\ r.from_addr = a}))

selectTransProduceByDate(a, date, ok) ==
  IF ~ok THEN Undefined
  ELSE OrZero(SqlSum({r \in fil_transfers :
                       r.type = "reward" /\ r.to_addr = a /\ r.day = date}))

\* The type and the role of the account that each query sums over.
Queries ==
  { [fn |-> "selectTransRecieve", type |-> "receive", role |-> "to_addr"],
    [fn |-> "selectTransSend", type |-> "send", role |-> "from_addr"],
    [fn |-> "selectTransProduce", type |-> "reward", role |-> "to_addr"],
    [fn |-> "selectTransBurn", type |-> "burn", role |-> "from_addr"],
    [fn |-> "selectTransProduceByDate", type |-> "reward", role |-> "to_addr"] }

Select(fn, a, date, ok) ==
  CASE fn = "selectTransRecieve" -> selectTransRecieve(a, ok)
    [] fn = "selectTransSend" -> selectTransSend(a, ok)
    [] fn = "selectTransProduce" -> selectTransProduce(a, ok)
    [] fn = "selectTransBurn" -> selectTransBurn(a, ok)
    [] fn = "selectTransProduceByDate" -> selectTransProduceByDate(a, date, ok)

\* The rows of the table that query q for account a (and date) sums over.
Matched(q, a, date) ==
  {r \in fil_transfers :
     /\ r.type = q.type
     /\ r[q.role] = a
     /\ q.fn = "selectTransProduceByDate" => r.day = date}

(* ------------------------------ attoToFil ------------------------------ *)
\* The characters of the strings handed to attoToFil.
Chars == {"0", "7", "-", ".", "a"}

IsDigit(c) == c \in {"0", "7"}

DigitValue(c) == IF c = "7" THEN 7 ELSE 0

Str(s) == [t |-> "string", v |-> s]

\* What report() hands to attoToFil (lines 474-476, 490): a field of the
\* balance payload, which is a string, or undefined or null when the
\* payload lacks it.
AttoInputs ==
  {[t |-> "undefined", v |-> <<>>], [t |-> "null", v |-> <<>>]}
    \cup {Str(s) : s \in UNION {[1..n -> Chars] : n \in 0..MaxLen}}

\* .replace(/\D/g, '') (line 272).
RECURSIVE StripNonDigits(_)
StripNonDigits(s) ==
  IF s = <<>> THEN <<>>
  ELSE IF IsDigit(Head(s)) THEN <<Head(s)>> \o StripNonDigits(Tail(s))
  ELSE StripNonDigits(Tail(s))

\* BigInt(digits) (line 272); BigInt('') is 0n.
RECURSIVE BigInt(_)
BigInt(s) ==
  IF s = <<>> THEN 0
  ELSE 10 * BigInt(SubSeq(s, 1, Len(s) - 1)) + DigitValue(s[Len(s)])

\* attoToFil (lines 270-277).  undefined.toString() and null.toString() are
\* TypeErrors, which the catch block turns into 0.  The result is the sum of
\* the whole FIL and the attoFIL left over divided by AttoPerFil.
attoToFil(atto) ==
  IF atto.t # "string" THEN [raised |-> FALSE, whole |-> 0, rest |-> 0]
  ELSE LET bigVal == BigInt(StripNonDigits(atto.v))
       IN [raised |-> FALSE, whole |-> bigVal \div AttoPerFil,
           rest |-> bigVal % AttoPerFil]

(* --------------------------- report(): steps --------------------------- *)
\* A transfer is stored in fil_transfers (lines 186-202).
StoreRow(r) ==
  /\ Cardinality(fil_transfers) < MaxRows
  /\ fil_transfers' = fil_transfers \cup {r}
  /\ UNCHANGED <<held, report, runVars, remote, fil_last_count, pc, uniqueIdCounter,
                 loopVars, passVars, faults, logVars, startVars, memVars>>

\* One of the queries of report() (lines 478-481, 488-489).  A rejected
\* getConnection leaves the function, and report()'s catch block exits.
SelectTrans(q, a, date) ==
  /\ \E o \in {"ok", "getConnection", "query"} :
       report' = [fn |-> q.fn, address |-> a, date |-> date, outcome |-> o,
                  matched |-> Cardinality(Matched(q, a, date)),
                  total |-> IF o = "getConnection" THEN Undefined
                            ELSE Select(q.fn, a, date, o = "ok")]
       /\ held' = IF o = "getConnection" THEN held ELSE held + 1 - release(o)
  /\ UNCHANGED <<runVars, remote, tableVars, pc, uniqueIdCounter, loopVars,
                 passVars, faults, logVars, startVars, memVars>>

\* syncer.attoToFil(...) (lines 490, 496-501).
AttoToFil(atto) ==
  /\ report' = [fn |-> "attoToFil", atto |-> atto, fil |-> attoToFil(atto)]
  /\ UNCHANGED <<held, runVars, remote, tableVars, pc, uniqueIdCounter, loopVars,
                 passVars, faults, logVars, startVars, memVars>>

ReportNext ==
  \/ \E r \in ReportRows : StoreRow(r)
  \/ \E q \in Queries, a \in Accounts :
       \E date \in IF q.fn = "selectTransProduceByDate" THEN Days ELSE {"none"} :
         SelectTrans(q, a, date)
  \/ \E atto \in AttoInputs : AttoToFil(atto)

\* report() against a table that grows.
SpecReport == Init /\ [][ReportNext]_vars

(* ------------------------------ the claims ----------------------------- *)
\* The pass in progress is an incremental pass whose addSync has computed
\* needSyncCount.
InAddSync ==
  /\ mode = "add"
  /\ pc \in {"getTransfers", "saveTransfers", "updateTotalCount", "passEnd"}
  /\ needSyncCount # Undefined

\* Every page of the pass was requested and answered in full.
AllFetched ==
  /\ totalPages.t = "number"
  /\ Len(passLog) = totalPages.v
  /\ \A i \in 1..Len(passLog) : passLog[i].got = passLog[i].size

\* Every batch of the pass was committed.
AllInserted == \A i \in 1..Len(passLog) : passLog[i].save = "committed"

\* An incremental pass over local total L and remote total R > L has ended
\* with every page fetched and every batch inserted.
DeltaPass ==
  /\ mode = "add"
  /\ pc = "passEnd"
  /\ local.t = "number"
  /\ net.t = "number"
  /\ net.v > local.v
  /\ AllFetched
  /\ AllInserted

\* C1 as stated: with local total L and remote total R > L, when every page
\* fetch and every batch insert succeeds, one incremental pass persists
\* exactly R - L new records and leaves the checkpoint equal to R.
C1_Original ==
  DeltaPass =>
    /\ CountRows(address) - startRows = net.v - local.v
    /\ selectLastCount(address) = net

\* C1 amended: the same, when the checkpoint write succeeds as well.
C1_DeltaCorrectness ==
  (DeltaPass /\ ckptWrite = "committed") =>
    /\ CountRows(address) - startRows = net.v - local.v
    /\ selectLastCount(address) = net

\* A pass of two pages, the second one shorter than pageSize.
C1_Witness ==
  /\ DeltaPass
  /\ ckptWrite = "committed"
  /\ Len(passLog) >= 2
  /\ passLog[Len(passLog)].size < pageSize

\* The pass in progress met no fault of the environment.
CleanPass == faults = startFaults

\* The account's previous pass was an incremental pass that ran to its end
\* in one of the outcomes named, its feed has not grown since, and the pass
\* in progress has ended too.
SecondRun(outcomes) ==
  /\ mode = "add"
  /\ pc = "passEnd"
  /\ prev[address].kind \in outcomes
  /\ ~appended[address]
  /\ CleanPass

\* C2 as stated: running the incremental sync twice in succession with no
\* new remote data leaves the local record count and the checkpoint after
\* the second run equal to their values after the first run, whether the
\* first run was complete, ended early on an empty page, or failed to write
\* the checkpoint.
C2_Original ==
  SecondRun({"complete", "empty", "unsaved"}) =>
    /\ CountRows(address) = startRows
    /\ selectLastCount(address) = startCkpt

\* The account's previous incremental pass stopped after committing some
\* but not all of its pages and before the checkpoint write, from a store
\* that mirrored the feed up to the checkpoint; its feed has not grown since.
Resumed ==
  /\ mode = "add"
  /\ prev[address].partial
  /\ prev[address].exact
  /\ ~appended[address]
  /\ CleanPass

\* C3 as stated: after such a stop the next pass derives needed from the
\* current local record count, and once it completes the store holds each
\* remote transfer exactly once.
C3_Original ==
  Resumed =>
    /\ InAddSync => needSyncCount = Minus(net, Num(startRows))
    /\ (pc = "passEnd" /\ ckptWrite = "committed") =>
         ExactlyOnce(address, remote[address])

\* C4 as stated: in an incremental pass, a page that returns fewer records
\* than were requested for it (zero included) is the last page requested,
\* and the pass ends without any error being raised.
C4_Original ==
  mode = "add" =>
    \A i \in 1..Len(passLog) :
      passLog[i].got < passLog[i].size =>
        /\ i = Len(passLog)
        /\ (pc = "passEnd" /\ faults = startFaults + 1) => caught = "none"

\* C5 as stated: once add() has begun the pass of the first account, no
\* failure in it makes the process exit with code 1, and unless the process
\* is killed every account's pass is run to its end.
C5_Original ==
  (mode = "add" /\ begun >= 1) =>
    /\ exitCode # "1"
    /\ (pc = "idle" /\ exitCode # "killed") => done = Len(addresses)

\* C6 as stated: after a batch insert failed and was rolled back, no later
\* page of that pass is requested and the pass does not advance the
\* checkpoint.
C6_Original ==
  mode = "add" =>
    \A i \in 1..Len(passLog) :
      passLog[i].save = "rolledback" =>
        /\ i = Len(passLog)
        /\ ckptWrite # "committed"

\* C7: after any call of saveTransfers, whether it succeeded or failed at
\* begin, insert or commit, the table gained either every row of the batch
\* or none of them.
C7_BatchAtomicity ==
  \A i \in 1..Len(passLog) : passLog[i].added \in {0, passLog[i].got}

\* The insert statement of a batch of two or more rows was rejected and the
\* batch rolled back.
C7_Witness ==
  \E i \in 1..Len(passLog) :
    /\ passLog[i].got >= 2
    /\ passLog[i].fault = "query"
    /\ passLog[i].save = "rolledback"
    /\ passLog[i].added = 0

\* C8 as stated: a batch in which some ids are already stored, saved with no
\* fault of the database, adds exactly the rows whose ids were not stored
\* and raises no error.
C8_Original ==
  \A i \in 1..Len(passLog) :
    ( /\ passLog[i].save # "pending"
      /\ passLog[i].fault = "none"
      /\ passLog[i].fresh < passLog[i].got ) =>
        /\ passLog[i].added = passLog[i].fresh
        /\ passLog[i].save = "committed"

\* C9 as stated: no step removes the checkpoint row of an account or lowers
\* its value.
C9_Original ==
  [][\A r \in fil_last_count :
       \E q \in fil_last_count' :
         q.address = r.address /\ q.last_count >= r.last_count]_vars

\* C10 as stated: after the checkpoint write of an incremental pass went
\* through with value net, the checkpoint table holds exactly one row for the
\* account, with that value; and no state holds two rows for one account.
C10_Original ==
  /\ \A a \in Accounts : Cardinality(LastCountRows(a)) <= 1
  /\ (mode = "add" /\ pc = "passEnd" /\ ckptWrite = "committed") =>
       /\ Cardinality(LastCountRows(address)) = 1
       /\ selectLastCount(address) = net

\* An incremental pass of an account that had no checkpoint row when the
\* pass began has ended with nothing failing in it, the remote total being
\* above the number of rows stored for the account.
UnseededPass ==
  /\ mode = "add"
  /\ pc = "passEnd"
  /\ startCkpt = Undefined
  /\ CleanPass
  /\ net.t = "number"
  /\ net.v > startRows

\* C11 as stated: when no checkpoint row exists for the account, the
\* incremental pass takes localTotal from the live count of its stored rows
\* and, the remote total R being above it, persists R - localTotal records.
C11_Original ==
  UnseededPass =>
    /\ local = Num(startRows)
    /\ CountRows(address) - startRows = net.v - startRows

\* The call made last was a query that the database answered.
Answered ==
  /\ report.fn \in {q.fn : q \in Queries}
  /\ report.outcome = "ok"

\* C12 as stated: each of the queries, answered by the database when no
\* stored row matches the account, returns the number 0, never null or
\* undefined.
C12_Original ==
  (Answered /\ report.matched = 0) => report.total = Num(0)

\* A string that is an unsigned decimal integer literal.
ValidAtto(atto) ==
  /\ atto.t = "string"
  /\ Len(atto.v) >= 1
  /\ \A i \in 1..Len(atto.v) : IsDigit(atto.v[i])

\* C13 as stated: attoToFil never raises, its result is never negative, and
\* for every input that is not an unsigned decimal integer string its
\* result is 0.
C13_Original ==
  report.fn = "attoToFil" =>
    /\ ~report.fil.raised
    /\ report.fil.whole >= 0 /\ report.fil.rest >= 0
    /\ ~ValidAtto(report.atto) => (report.fil.whole = 0 /\ report.fil.rest = 0)

\* No call of the database failed in the pass in progress.
NoDbFault ==
  /\ \A i \in 1..Len(passLog) : passLog[i].fault = "none"
  /\ caught \notin {"getConnection", "rollback"}
  /\ ckptWrite \notin {"rolledback", "threw"}

\* An incremental pass with needed > 0 has ended.
NeededPass ==
  /\ mode = "add"
  /\ pc = "passEnd"
  /\ needSyncCount.t = "number"
  /\ needSyncCount.v > 0

\* C14 as stated: in an incremental pass with needed > 0 in which no call of
\* the database fails, no page is requested or saved after the checkpoint
\* write, and the pass ends with the checkpoint written, with the value
\* remoteTotal, also when the loop was left on a short or empty page.
C14_Original ==
  /\ (mode = "add" /\ ckptWrite # "none") => pc = "passEnd"
  /\ (NeededPass /\ NoDbFault) =>
       /\ ckptWrite = "committed"
       /\ selectLastCount(address) = net

\* The feed positions that the request of log entry e asks for (lines
\* 129-133): page p of size s holds positions p*s .. p*s+s-1.
Positions(e) == (e.page * e.size)..(e.page * e.size + e.size - 1)

\* The requests of the pass in progress that ask for feed position k.
Asking(k) == {i \in 1..Len(passLog) : k \in Positions(passLog[i])}

\* C15 as stated: the requests of an incremental pass with needed >= 1, all
\* of them answered in full, cover each of the feed positions 0 .. needed-1
\* exactly once and no other position.
C15_Original ==
  (NeededPass /\ AllFetched) =>
    /\ \A k \in 0..(needSyncCount.v - 1) : Cardinality(Asking(k)) = 1
    /\ \A i \in 1..Len(passLog) :
         Positions(passLog[i]) \subseteq 0..(needSyncCount.v - 1)

\* C16: whatever the remote answers, an incremental pass with needed > 0
\* requests the page indices 0, 1, 2, ... each once, and at most
\* ceil(needed / pageSize) of them.
C16_Terminates ==
  (mode = "add" /\ passLog # <<>>) =>
    /\ needSyncCount.t = "number" /\ needSyncCount.v > 0
    /\ \A i \in 1..Len(passLog) : passLog[i].page = i - 1
    /\ (Len(passLog) - 1) * pageSize < needSyncCount.v

\* A pass of two pages has ended although the remote answered one of its
\* requests short.
C16_Witness ==
  /\ NeededPass
  /\ Len(passLog) = 2
  /\ needSyncCount.v > pageSize
  /\ \E i \in 1..Len(passLog) : passLog[i].got < passLog[i].size

\* The pass in progress is an incremental pass that began with the
\* account's checkpoint at most the number of its stored rows, and every
\* fault it met was a page answered short or empty or a failed batch insert.
BehindAtStart ==
  /\ mode = "add"
  /\ pc # "idle"
  /\ startCkpt.t = "number"
  /\ startCkpt.v <= startRows
  /\ local = startCkpt
  /\ net = Num(remote[address])
  /\ ckptWrite \in {"none", "committed"}

\* C17 as stated: an incremental pass that begins with the checkpoint at most
\* the number of rows stored for the account leaves it at most that number,
\* whatever mix of short pages, empty pages and failed batch inserts it meets.
C17_Original ==
  (BehindAtStart /\ pc = "passEnd") =>
    /\ selectLastCount(address).t = "number"
    /\ selectLastCount(address).v <= CountRows(address)

\* The order of a full pass: no page is requested before saveTotalCount has
\* returned, the page indices are 0, 1, 2, ..., and no page is requested
\* after an empty one.
FullSyncOrder ==
  mode = "all" =>
    /\ passLog # <<>> => ckptWrite # "none"
    /\ \A i \in 1..Len(passLog) :
         /\ passLog[i].page = i - 1
         /\ passLog[i].got = 0 => i = Len(passLog)

\* The next incremental pass of an account whose full pass was killed during
\* paging has ended, the feed not having grown and nothing having failed.
AfterStoppedFullSync ==
  /\ mode = "add"
  /\ pc = "passEnd"
  /\ prev[address].kind = "fullcrashed"
  /\ ~appended[address]
  /\ CleanPass

\* That pass took the needed <= 0 exit: no error, no page request, no row
\* and no checkpoint write.
NothingPersisted ==
  /\ LeqZero(needSyncCount)
  /\ caught = "none"
  /\ passLog = <<>>
  /\ ckptWrite = "none"
  /\ CountRows(address) = startRows
  /\ selectLastCount(address) = startCkpt

UpToDate ==
  /\ mode = "add"
  /\ pc \notin {"idle", "initialize", "selectTotalCount", "getTotalCount", "addSync"}
  /\ startCkpt.t = "number"
  /\ needSyncCount.t = "number"
  /\ needSyncCount.v <= 0

\* C19: when the account has a checkpoint and needed <= 0, also when the
\* total-count fetch soft-failed, the pass ends at once: no page request, no
\* row inserted, no checkpoint write, the checkpoint as it was.
C19_UpToDateNoChange ==
  UpToDate =>
    /\ pc = "passEnd"
    /\ passLog = <<>>
    /\ caught = "none"
    /\ ckptWrite = "none"
    /\ CountRows(address) = startRows
    /\ selectLastCount(address) = startCkpt

\* The total-count fetch soft-failed while the feed was ahead of the
\* checkpoint, and the pass ended with the gap left for the next pass.
C19_Witness ==
  /\ UpToDate
  /\ pc = "passEnd"
  /\ net \in {Num(0), EmptyArray}
  /\ remote[address] > startCkpt.v
  /\ selectLastCount(address) = startCkpt

====
